---------------------------- MODULE Spec2Model ----------------------------
(***************************************************************************)
(* A model of prime_shields.py: the validator validate_general and the     *)
(* ratchet generator generate_shield_generals.                             *)
(*                                                                         *)
(* Each call of generate_shield_generals is a run r in Runs with its own   *)
(* locals (every variable below is indexed by the run); the runs are       *)
(* interleaved statement by statement.  A local that is not bound yet is   *)
(* 0 (an integer) or <<>> (a list).  Logging is not modelled.              *)
(***************************************************************************)
EXTENDS Integers, Sequences, FiniteSets, TLC

\* ------------------------------------------------------------------ bounds
\* The largest n_terms a call is made with.
MaxTerms == 6
\* Cap of the inner search counter k (the code has none).
MaxK == 30
\* validate_general called on its own: candidates -3..MaxCand, parity moduli
\* 1..MaxMod, remainders 0..MaxMod, prime lists of at most MaxPrimesLen.
MaxCand == 12
MaxMod == 3
MaxPrimesLen == 2

\* The two calls that are compared with each other.
Runs == {1, 2}
NTermsValues == (-1) .. MaxTerms
SyntheticPrimes == {2, 3, 5, 7}

\* --------------------------------------------------------------- constants
P_START_PRIME == 3
g_init == 4
target_mod == 2
target_rem == 0

VARIABLES
    n_terms,          \* the argument of the call
    pc,               \* where the call is
    current_general,
    current_cycle,
    p_k,
    shielded_primes,
    results,
    p_new,
    k,
    candidate,
    vcall             \* a direct call of validate_general: arguments and result

vars == << n_terms, pc, current_general, current_cycle, p_k, shielded_primes,
           results, p_new, k, candidate, vcall >>

genVars == << n_terms, pc, current_general, current_cycle, p_k, shielded_primes,
              results, p_new, k, candidate >>

\* ----------------------------------------------------------------- helpers
Last(s) == s[Len(s)]

IsPrime(q) == q > 1 /\ \A d \in 2 .. (q - 1) : q % d # 0

\* A plausible slip: the next odd number instead of the next prime.
NextPrime_odd(n) == n + 2

\* sympy.nextprime: the smallest prime strictly greater than n.
NextPrime(n) ==
    CHOOSE q \in (n + 1) .. (2 * n) :
        IsPrime(q) /\ \A m \in (n + 1) .. (q - 1) : ~IsPrime(m)

RECURSIVE Product(_)
Product(s) == IF s = <<>> THEN 1 ELSE s[1] * Product(Tail(s))

\* ------------------------------------------------------------ the validator
\* The for loop of validate_general from index i on, with its early returns.
RECURSIVE CheckPrimes(_, _, _)
CheckPrimes(g, primes_list, i) ==
    IF i > Len(primes_list) THEN TRUE
    ELSE LET p == primes_list[i] IN
         IF p = 3
         THEN IF g % 3 = 0 THEN FALSE ELSE CheckPrimes(g, primes_list, i + 1)
         ELSE IF p >= 5
              THEN LET rem == g % p IN
                   IF rem # 1 /\ rem # p - 1 THEN FALSE
                   ELSE CheckPrimes(g, primes_list, i + 1)
              ELSE CheckPrimes(g, primes_list, i + 1)

\* A plausible slip: "p > 5" for "p >= 5", so that 5 is never checked.
RECURSIVE CheckPrimes_gt5(_, _, _)
CheckPrimes_gt5(g, primes_list, i) ==
    IF i > Len(primes_list) THEN TRUE
    ELSE LET p == primes_list[i] IN
         IF p = 3
         THEN IF g % 3 = 0 THEN FALSE ELSE CheckPrimes_gt5(g, primes_list, i + 1)
         ELSE IF p > 5
              THEN LET rem == g % p IN
                   IF rem # 1 /\ rem # p - 1 THEN FALSE
                   ELSE CheckPrimes_gt5(g, primes_list, i + 1)
              ELSE CheckPrimes_gt5(g, primes_list, i + 1)

validate_general_gt5(g, primes_list, t_mod, t_rem) ==
    IF g % t_mod # t_rem THEN FALSE ELSE CheckPrimes_gt5(g, primes_list, 1)

validate_general(g, primes_list, t_mod, t_rem) ==
    IF g % t_mod # t_rem THEN FALSE ELSE CheckPrimes(g, primes_list, 1)

\* ------------------------------------------------------- the inner search
Candidate(g, kk, cycle) == g + (kk * cycle)

\* A plausible slip: only the natural shield (1) and p-2 are accepted.
hit_off(rem, p) == rem = 1 \/ rem = p - 2

hit(rem, p) == rem = 1 \/ rem = p - 1

\* A plausible slip: the parity check dropped from the search ("usually
\* satisfied", says the comment in the code).
is_target_parity_skip(c) == TRUE

is_target_parity(c) == c % target_mod = target_rem

\* A plausible slip: "<=" for "<" in the loop condition.
LoopCond_le(r) == Len(results[r]) <= n_terms[r]

LoopCond(r) == Len(results[r]) < n_terms[r]

\* ----------------------------------------------------------------- states
Unbound ==
    /\ current_general = [r \in Runs |-> 0]
    /\ current_cycle = [r \in Runs |-> 0]
    /\ p_k = [r \in Runs |-> 0]
    /\ shielded_primes = [r \in Runs |-> <<>>]
    /\ results = [r \in Runs |-> <<>>]
    /\ p_new = [r \in Runs |-> 0]
    /\ k = [r \in Runs |-> 0]
    /\ candidate = [r \in Runs |-> 0]

NoCall == [g_k |-> 0, primes_list |-> <<>>, target_mod |-> 1, target_rem |-> 0,
           returned |-> FALSE, ret |-> FALSE]

Init ==
    /\ n_terms \in [Runs -> NTermsValues]
    /\ pc = [r \in Runs |-> "start"]
    /\ Unbound
    /\ vcall = NoCall

\* ---------------------------------------------------------------- actions
\* if n_terms < 1: return []
EarlyReturn(r) ==
    /\ pc[r] = "start"
    /\ n_terms[r] < 1
    /\ pc' = [pc EXCEPT ![r] = "done"]
    /\ UNCHANGED << n_terms, current_general, current_cycle, p_k,
                    shielded_primes, results, p_new, k, candidate, vcall >>

\* A plausible slip: the cycle kept in a module-level global that a call
\* does not reset when another call has already set it.
Seed_global(r) ==
    /\ pc[r] = "start"
    /\ ~(n_terms[r] < 1)
    /\ current_general' = [current_general EXCEPT ![r] = g_init]
    /\ current_cycle' = [current_cycle EXCEPT ![r] =
            IF \E o \in Runs \ {r} : current_cycle[o] > 0
            THEN current_cycle[CHOOSE o \in Runs \ {r} : current_cycle[o] > 0]
            ELSE P_START_PRIME]
    /\ p_k' = [p_k EXCEPT ![r] = P_START_PRIME]
    /\ shielded_primes' = [shielded_primes EXCEPT ![r] = <<3>>]
    /\ results' = [results EXCEPT ![r] = <<g_init>>]
    /\ pc' = [pc EXCEPT ![r] =
            IF validate_general(g_init, <<3>>, target_mod, target_rem)
            THEN "loop" ELSE "error"]
    /\ UNCHANGED << n_terms, p_new, k, candidate, vcall >>

\* The ratchet state is initialised and term 1 validated.
Seed(r) ==
    /\ pc[r] = "start"
    /\ ~(n_terms[r] < 1)
    /\ current_general' = [current_general EXCEPT ![r] = g_init]
    /\ current_cycle' = [current_cycle EXCEPT ![r] = P_START_PRIME]
    /\ p_k' = [p_k EXCEPT ![r] = P_START_PRIME]
    /\ shielded_primes' = [shielded_primes EXCEPT ![r] = <<3>>]
    /\ results' = [results EXCEPT ![r] = <<g_init>>]
    /\ pc' = [pc EXCEPT ![r] =
            IF validate_general(g_init, <<3>>, target_mod, target_rem)
            THEN "loop" ELSE "error"]
    /\ UNCHANGED << n_terms, p_new, k, candidate, vcall >>

\* A plausible slip: the search started at k = 1.
LoopEnter_k1(r) ==
    /\ pc[r] = "loop"
    /\ LoopCond(r)
    /\ p_new' = [p_new EXCEPT ![r] = NextPrime(p_k[r])]
    /\ k' = [k EXCEPT ![r] = 1]
    /\ pc' = [pc EXCEPT ![r] = "search"]
    /\ UNCHANGED << n_terms, current_general, current_cycle, p_k,
                    shielded_primes, results, candidate, vcall >>

\* while len(results) < n_terms: p_new = nextprime(p_k); k = 0
LoopEnter(r) ==
    /\ pc[r] = "loop"
    /\ LoopCond(r)
    /\ p_new' = [p_new EXCEPT ![r] = NextPrime(p_k[r])]
    /\ k' = [k EXCEPT ![r] = 0]
    /\ pc' = [pc EXCEPT ![r] = "search"]
    /\ UNCHANGED << n_terms, current_general, current_cycle, p_k,
                    shielded_primes, results, candidate, vcall >>

\* the loop condition fails: return results
LoopExit(r) ==
    /\ pc[r] = "loop"
    /\ ~LoopCond(r)
    /\ pc' = [pc EXCEPT ![r] = "done"]
    /\ UNCHANGED << n_terms, current_general, current_cycle, p_k,
                    shielded_primes, results, p_new, k, candidate, vcall >>

\* One iteration of "while True" that takes the if: the candidate is accepted,
\* p_new appended and the full validation run.
Accept(r) ==
    /\ pc[r] = "search"
    /\ LET c == Candidate(current_general[r], k[r], current_cycle[r])
           rem == c % p_new[r]
           primes == Append(shielded_primes[r], p_new[r])
       IN /\ hit(rem, p_new[r]) /\ is_target_parity(c)
          /\ candidate' = [candidate EXCEPT ![r] = c]
          /\ current_general' = [current_general EXCEPT ![r] = c]
          /\ shielded_primes' = [shielded_primes EXCEPT ![r] = primes]
          /\ pc' = [pc EXCEPT ![r] =
                  IF validate_general(c, primes, target_mod, target_rem)
                  THEN "accepted" ELSE "error"]
    /\ UNCHANGED << n_terms, current_cycle, p_k, results, p_new, k, vcall >>

\* One iteration of "while True" that does not take the if: k += 1.
Advance(r) ==
    /\ pc[r] = "search"
    /\ k[r] < MaxK
    /\ LET c == Candidate(current_general[r], k[r], current_cycle[r])
           rem == c % p_new[r]
       IN /\ ~(hit(rem, p_new[r]) /\ is_target_parity(c))
          /\ candidate' = [candidate EXCEPT ![r] = c]
    /\ k' = [k EXCEPT ![r] = k[r] + 1]
    /\ UNCHANGED << n_terms, pc, current_general, current_cycle, p_k,
                    shielded_primes, results, p_new, vcall >>

\* results.append(current_general)
AppendResult(r) ==
    /\ pc[r] = "accepted"
    /\ results' = [results EXCEPT ![r] = Append(results[r], current_general[r])]
    /\ pc' = [pc EXCEPT ![r] = "appended"]
    /\ UNCHANGED << n_terms, current_general, current_cycle, p_k,
                    shielded_primes, p_new, k, candidate, vcall >>

\* A plausible slip: "+=" for "*=".
UpdateCycle_plus(r) ==
    /\ pc[r] = "appended"
    /\ current_cycle' = [current_cycle EXCEPT ![r] = current_cycle[r] + p_new[r]]
    /\ pc' = [pc EXCEPT ![r] = "cycled"]
    /\ UNCHANGED << n_terms, current_general, p_k, shielded_primes, results,
                    p_new, k, candidate, vcall >>

\* current_cycle *= p_new
UpdateCycle(r) ==
    /\ pc[r] = "appended"
    /\ current_cycle' = [current_cycle EXCEPT ![r] = current_cycle[r] * p_new[r]]
    /\ pc' = [pc EXCEPT ![r] = "cycled"]
    /\ UNCHANGED << n_terms, current_general, p_k, shielded_primes, results,
                    p_new, k, candidate, vcall >>

\* p_k = p_new
UpdatePk(r) ==
    /\ pc[r] = "cycled"
    /\ p_k' = [p_k EXCEPT ![r] = p_new[r]]
    /\ pc' = [pc EXCEPT ![r] = "loop"]
    /\ UNCHANGED << n_terms, current_general, current_cycle, shielded_primes,
                    results, p_new, k, candidate, vcall >>

RunStep(r) ==
    \/ EarlyReturn(r)
    \/ Seed(r)
    \/ LoopEnter(r)
    \/ LoopExit(r)
    \/ Accept(r)
    \/ Advance(r)
    \/ AppendResult(r)
    \/ UpdateCycle(r)
    \/ UpdatePk(r)

Next == \E r \in Runs : RunStep(r)

Spec == Init /\ [][Next]_vars

\* A call runs to its end: nothing else is scheduled in its place.
FairSpec == Spec /\ \A r \in Runs : WF_vars(RunStep(r))

\* ------------------------------------- validate_general called on its own
PrimeLists ==
    UNION { [1 .. n -> SyntheticPrimes] : n \in 0 .. MaxPrimesLen }

ValInit ==
    /\ n_terms = [r \in Runs |-> 0]
    /\ pc = [r \in Runs |-> "start"]
    /\ Unbound
    /\ vcall \in [g_k : (-3) .. MaxCand, primes_list : PrimeLists,
                  target_mod : 1 .. MaxMod, target_rem : 0 .. MaxMod,
                  returned : {FALSE}, ret : {FALSE}]

ValidateCall ==
    /\ ~vcall.returned
    /\ vcall' = [vcall EXCEPT
            !.returned = TRUE,
            !.ret = validate_general(vcall.g_k, vcall.primes_list,
                                     vcall.target_mod, vcall.target_rem)]
    /\ UNCHANGED genVars

ValNext == ValidateCall

ValSpec == ValInit /\ [][ValNext]_vars

\* ================================================================= claims
Initialised(r) == shielded_primes[r] # <<>>

\* g is even, is 1 modulo 3, and is 1 or p-1 modulo every p >= 5 of ps.
Shields(g, ps) ==
    /\ g % 2 = 0
    /\ g % 3 = 1
    /\ \A j \in 1 .. Len(ps) : ps[j] >= 5 => (g % ps[j] = 1 \/ g % ps[j] = ps[j] - 1)

\* C1: generate_shield_generals(6) returns exactly
\* [4, 4, 34, 1924, 25024, 85084].
C1_SixTerms ==
    \A r \in Runs :
        (pc[r] = "done" /\ n_terms[r] = 6)
            => results[r] = << 4, 4, 34, 1924, 25024, 85084 >>

\* C2: the i-th term is the smallest even non-negative integer that
\* validate_general accepts with the first i shielded primes and parity
\* (mod 2, remainder 0).
C2_SmallestEven ==
    \A r \in Runs : \A i \in 1 .. Len(results[r]) :
        i <= Len(shielded_primes[r]) =>
            ~ \E x \in 0 .. (results[r][i] - 1) :
                /\ x % 2 = 0
                /\ validate_general(x, SubSeq(shielded_primes[r], 1, i), 2, 0)

\* C3: after every accepted term current_general is even, 1 modulo 3 and
\* 1 or p-1 modulo every shielded prime p >= 5; so is every stored term with
\* respect to the primes shielded when it was appended.
C3_Shielded ==
    \A r \in Runs :
        Initialised(r) =>
            /\ Shields(current_general[r], shielded_primes[r])
            /\ \A i \in 1 .. Len(results[r]) :
                   /\ i <= Len(shielded_primes[r])
                   /\ Shields(results[r][i], SubSeq(shielded_primes[r], 1, i))

C3_Witness ==
    \E r \in Runs :
        /\ pc[r] = "accepted"
        /\ Len(shielded_primes[r]) = 5
        /\ current_general[r] % 13 = 1

\* C4 as stated: in every state of a call that has its ratchet state,
\* current_cycle is the product of shielded_primes.
C4_Original ==
    \A r \in Runs :
        Initialised(r) => current_cycle[r] = Product(shielded_primes[r])

\* C4 amended: current_cycle is the product of shielded_primes except
\* between the append of p_new and the cycle update, where it is the
\* product of all shielded primes but the last one.
C4_Amended ==
    \A r \in Runs :
        Initialised(r) =>
            IF pc[r] \in {"accepted", "appended"}
            THEN /\ Last(shielded_primes[r]) = p_new[r]
                 /\ current_cycle[r] * p_new[r] = Product(shielded_primes[r])
            ELSE current_cycle[r] = Product(shielded_primes[r])

C4_Witness ==
    \E r \in Runs :
        /\ pc[r] = "appended"
        /\ Len(shielded_primes[r]) >= 4
        /\ current_cycle[r] # Product(shielded_primes[r])

\* The step of run r accepts a term: the seed, or a candidate of the search.
AcceptsTerm(r) ==
    \/ pc[r] = "start" /\ pc'[r] \in {"loop", "error"}
    \/ pc[r] = "search" /\ pc'[r] \in {"accepted", "error"}

\* q is the smallest prime strictly greater than n.
SmallestPrimeAfter(q, n) ==
    /\ q > n
    /\ IsPrime(q)
    /\ \A m \in (n + 1) .. (q - 1) : ~IsPrime(m)

C5_Step(r) ==
    IF AcceptsTerm(r)
    THEN IF shielded_primes[r] = <<>>
         THEN shielded_primes'[r] = <<3>>
         ELSE /\ Len(shielded_primes'[r]) = Len(shielded_primes[r]) + 1
              /\ SubSeq(shielded_primes'[r], 1, Len(shielded_primes[r]))
                     = shielded_primes[r]
              /\ SmallestPrimeAfter(Last(shielded_primes'[r]),
                                    Last(shielded_primes[r]))
    ELSE shielded_primes'[r] = shielded_primes[r]

\* The terms a call has accepted: those stored, and the one accepted and
\* not stored yet.
C5_Count(r) ==
    Len(shielded_primes[r])
        = Len(results[r]) + (IF pc[r] = "accepted" THEN 1 ELSE 0)

\* C5: shielded_primes starts as [3]; a step leaves it unchanged or appends
\* the smallest prime greater than its last element, once per accepted
\* term; its length is the number of accepted terms.
C5_GrowsByNextPrime ==
    /\ [][\A r \in Runs : C5_Step(r)]_vars
    /\ [](\A r \in Runs : C5_Count(r))

C5_Witness ==
    \E r \in Runs :
        /\ pc[r] = "loop"
        /\ shielded_primes[r] = << 3, 5, 7, 11, 13 >>

\* C6: every call terminates; n_terms < 1 returns [] with no ratchet state
\* touched, n_terms = 1 returns [4], n_terms >= 1 returns n_terms terms.
C6_Returned(r) ==
    pc[r] = "done" =>
        /\ n_terms[r] < 1 =>
               /\ results[r] = <<>>
               /\ shielded_primes[r] = <<>>
               /\ current_general[r] = 0
               /\ current_cycle[r] = 0
               /\ p_k[r] = 0
        /\ n_terms[r] = 1 => results[r] = <<4>>
        /\ n_terms[r] >= 1 => Len(results[r]) = n_terms[r]

C6_Terminates ==
    /\ \A r \in Runs : <>(pc[r] = "done")
    /\ [](\A r \in Runs : C6_Returned(r))

C6_Witness ==
    \E r \in Runs :
        /\ pc[r] = "done"
        /\ n_terms[r] >= 5
        /\ Len(results[r]) = n_terms[r]

\* C7: two calls with the same n return the same sequence, and the calls
\* with n and n+1 agree on their first n elements.
C7_PrefixDeterminism ==
    \A a, b \in Runs :
        (pc[a] = "done" /\ pc[b] = "done") =>
            /\ n_terms[a] = n_terms[b] => results[a] = results[b]
            /\ (n_terms[a] >= 0 /\ n_terms[b] = n_terms[a] + 1) =>
                   /\ Len(results[b]) >= n_terms[a]
                   /\ SubSeq(results[b], 1, n_terms[a]) = results[a]

C7_Witness ==
    \E a, b \in Runs :
        /\ pc[a] = "done" /\ pc[b] = "done"
        /\ n_terms[a] >= 4
        /\ n_terms[b] = n_terms[a] + 1
        /\ Len(results[a]) = n_terms[a]

\* What C8 says validate_general decides.
C8_Expected(c) ==
    /\ c.g_k % c.target_mod = c.target_rem
    /\ \A j \in 1 .. Len(c.primes_list) :
           LET p == c.primes_list[j] IN
           /\ p = 3 => c.g_k % 3 # 0
           /\ p >= 5 => (c.g_k % p = 1 \/ c.g_k % p = p - 1)

C8_Is(c, g, primes) ==
    /\ c.returned
    /\ c.g_k = g /\ c.primes_list = primes
    /\ c.target_mod = 2 /\ c.target_rem = 0

\* C8: validate_general returns true exactly when the parity holds and
\* every p of the list passes (p = 3: not 0 modulo 3; p >= 5: 1 or p-1
\* modulo p); validate(4,[3],2,0) is true, validate(9,[3],2,0) and
\* validate(6,[3,5],2,0) are false; the call changes nothing else.
C8_Validator ==
    /\ [](vcall.returned => (vcall.ret <=> C8_Expected(vcall)))
    /\ [](C8_Is(vcall, 4, <<3>>) => vcall.ret)
    /\ [](C8_Is(vcall, 9, <<3>>) => ~vcall.ret)
    /\ [](C8_Is(vcall, 6, <<3, 5>>) => ~vcall.ret)
    /\ [][/\ vcall'.g_k = vcall.g_k
          /\ vcall'.primes_list = vcall.primes_list
          /\ vcall'.target_mod = vcall.target_mod
          /\ vcall'.target_rem = vcall.target_rem
          /\ genVars' = genVars]_vars

C8_Witness ==
    /\ C8_Is(vcall, 4, <<3, 5>>)
    /\ vcall.ret

\* C9: the validation never fails, for the seed or for an accepted
\* candidate: no call raises RuntimeError.
C9_NoRuntimeError ==
    \A r \in Runs : pc[r] # "error"

C9_Witness ==
    \E r \in Runs :
        /\ pc[r] = "accepted"
        /\ Len(shielded_primes[r]) = 6
        /\ k[r] > 0

\* The candidate at kk passes the search's two checks.
C10_Passes(r, kk) ==
    LET c == current_general[r] + kk * current_cycle[r] IN
    /\ (c % p_new[r] = 1 \/ c % p_new[r] = p_new[r] - 1)
    /\ c % 2 = 0

C10_Accepting(r) == pc[r] = "search" /\ pc'[r] \in {"accepted", "error"}

\* C10 as stated: the k at which the search accepts is the smallest k that
\* passes, and is strictly less than p_new.
C10_Original ==
    [][\A r \in Runs :
          C10_Accepting(r) =>
              /\ C10_Passes(r, k[r])
              /\ \A j \in 0 .. (k[r] - 1) : ~C10_Passes(r, j)
              /\ k[r] < p_new[r]]_vars

\* C10 amended: the k at which the search accepts is the smallest k that
\* passes, and is strictly less than 2 * p_new.
C10_Amended ==
    [][\A r \in Runs :
          C10_Accepting(r) =>
              /\ C10_Passes(r, k[r])
              /\ \A j \in 0 .. (k[r] - 1) : ~C10_Passes(r, j)
              /\ k[r] < 2 * p_new[r]]_vars

C10_Witness ==
    \E r \in Runs :
        /\ pc[r] = "accepted"
        /\ k[r] >= p_new[r]

=============================================================================
